---------------------------- MODULE Spec2Model ----------------------------
(***************************************************************************)
(* A model of the handle/identity layer of native-windows-gui:             *)
(*   - the native class/window builder  (src/src/low/window_helper.rs)     *)
(*   - the typed registry accessors     (src/src/low/window_helper.rs)     *)
(*   - the children walker              (src/src/low/window_helper.rs)     *)
(*   - the per-handle data wrappers     (src/src/controls/mod.rs)          *)
(* The registry itself (ui::UiInner / ui::Ui), controls::base, the reverse *)
(* lookup low::events::window_id, low::menu_helper::list_menu_children and *)
(* the window procedure are parts of the crate whose code is not in the    *)
(* source tree at hand; they are modelled from their documented contract   *)
(* and are marked as such where they are defined.                          *)
(*                                                                         *)
(* The program is single threaded: every operation runs to completion      *)
(* before the next one starts, so every operation is one step.  That holds *)
(* for list_window_children too: the OS calls its callback, once per child *)
(* window, before EnumChildWindows returns.                                *)
(***************************************************************************)
EXTENDS Integers, Sequences, FiniteSets, TLC

\* ------------------------------------------------------------------ bounds
MaxHwnd == 3
MaxFont == 1
MaxId == 2
MaxClass == 2
MaxData == 2
MaxMenuItems == 1

\* --------------------------------------------------------------- constants
\* ptr::null_mut(): the null handle / null module.
NULL == 0

HWNDs == 1..MaxHwnd
HFONTs == 1..MaxFont
IDs == 1..MaxId
ClassNames == 1..MaxClass
DataValues == 1..MaxData
\* The &'static str a call site hands to a typed accessor.
Labels == {"parent", "font"}
\* Window messages the window procedure may receive.
Msgs == {"WM_COMMAND", "WM_CLOSE"}

VARIABLES
    classTable,   \* OS: the names of the registered window classes
    windows,      \* OS: live window handle -> parent handle (NULL: top level)
    inner,        \* UiInner: [handles: id -> AnyHandle, ids: AnyHandle -> id]
    store,        \* per-handle data: live window handle -> value (NULL: none)
    ret,          \* the last operation: its name, inputs and what it returned
    expect,       \* history: id -> the handle its last successful insert gave
    lastSet       \* history: live window handle -> the value last attached

vars == <<classTable, windows, inner, store, ret, expect, lastSet>>

\* ------------------------------------------------------------ result values
Ok(v) == [tag |-> "Ok", val |-> v]
Err(e) == [tag |-> "Err", err |-> e]
ErrL(e, l) == [tag |-> "Err", err |-> e, label |-> l]
Some(v) == [some |-> TRUE, val |-> v]
None == [some |-> FALSE]
\* The value of a function returning ().
Unit == [tag |-> "Unit"]
\* Option::unwrap() on None: the thread panics.
Panic == [tag |-> "Panic"]

\* AnyHandle: a tagged union over the handle kinds.
AnyHWND(h) == [kind |-> "HWND", h |-> h]
AnyHFONT(h) == [kind |-> "HFONT", h |-> h]

\* A function with one key dropped / one pair added.
Drop(f, k) == [x \in DOMAIN f \ {k} |-> f[x]]
Put(f, k, v) == [x \in DOMAIN f \cup {k} |-> IF x = k THEN v ELSE f[x]]

\* ----------------------------------------------------------- the OS (user32)
\* RegisterClassExW: `outcome` is what the OS decides.  It can report success
\* only for a name that is not registered yet, and "already exists" only for
\* one that is; any other failure is possible at any time.
RegisterOutcomes(table, name) ==
    {"other"} \cup (IF name \in table THEN {"exists"} ELSE {"ok"})

RegisterClassExW(table, name, outcome) ==
    IF outcome = "ok"
    THEN [class_token |-> 1, lastError |-> "ERROR_SUCCESS",
          table |-> table \cup {name}]
    ELSE IF outcome = "exists"
    THEN [class_token |-> 0, lastError |-> "ERROR_CLASS_ALREADY_EXISTS",
          table |-> table]
    ELSE [class_token |-> 0, lastError |-> "ERROR_OTHER", table |-> table]

\* CreateWindowExW: the handles the OS may return.  NULL (failure: an unknown
\* class, resource exhaustion, ...) is always possible and is the only outcome
\* for a parent that is no live window; otherwise any handle value that no
\* live window has.  The class may be a system class, so the outcome is not
\* tied to the classes build_sysclass registered; title, position, size and
\* flags do not matter to what follows.
CreateOutcomes(wins, parent) ==
    {NULL} \cup
    (IF parent = NULL \/ parent \in DOMAIN wins
     THEN HWNDs \ DOMAIN wins ELSE {})

\* The windows under `root`, children and their children.
RECURSIVE Descendants(_, _)
Descendants(wins, roots) ==
    LET kids == {h \in DOMAIN wins : wins[h] \in roots}
    IN  IF kids = {} THEN {} ELSE kids \cup Descendants(wins, kids)

\* ------------------------------------------------- Native Class/Window Builder
\* build_sysclass, given what GetModuleHandleW and RegisterClassExW returned
\* (reg is not looked at when hmod is null: the function has returned).
build_sysclass_TreatsExistsAsError(hmod, reg) ==
    IF hmod = NULL THEN Err("SystemClassCreation")
    ELSE IF reg.class_token = 0
    THEN Err("SystemClassCreation")
    ELSE Ok(Unit)

build_sysclass(hmod, reg) ==
    IF hmod = NULL THEN Err("SystemClassCreation")
    ELSE IF reg.class_token = 0 /\ reg.lastError # "ERROR_CLASS_ALREADY_EXISTS"
    THEN Err("SystemClassCreation")
    ELSE Ok(Unit)

\* build_window, given what GetModuleHandleW and CreateWindowExW returned.
build_window_NoNullCheck(hmod, handle) ==
    IF hmod = NULL THEN Err("WindowCreationFail")
    ELSE Ok(handle)

build_window(hmod, handle) ==
    IF hmod = NULL THEN Err("WindowCreationFail")
    ELSE IF handle = NULL
    THEN Err("WindowCreationFail")
    ELSE Ok(handle)


\* ------------------------------------------------------------ Handle Registry
\* ui::UiInner, from its contract: the two directions of the mapping are kept
\* as two tables, `handles` (identifier -> AnyHandle) and `ids` (AnyHandle ->
\* identifier).
EmptyInner == [handles |-> <<>>, ids |-> <<>>]

\* insert: fails if the identifier is already registered, else records the
\* pair in both tables.
insert_Overwrites(ui, id, handle) ==
    [inner |-> [handles |-> Put(ui.handles, id, handle),
                ids |-> Put(ui.ids, handle, id)],
     result |-> Ok(Unit)]

insert(ui, id, handle) ==
    IF id \in DOMAIN ui.handles
    THEN [inner |-> ui, result |-> Err("KeyExists")]
    ELSE [inner |-> [handles |-> Put(ui.handles, id, handle),
                     ids |-> Put(ui.ids, handle, id)],
          result |-> Ok(Unit)]

\* remove: deregisters and returns the handle; the OS resource is not touched.
remove(ui, id) ==
    IF id \in DOMAIN ui.handles
    THEN [inner |-> [handles |-> Drop(ui.handles, id),
                     ids |-> Drop(ui.ids, ui.handles[id])],
          result |-> Ok(ui.handles[id])]
    ELSE [inner |-> ui, result |-> Err("KeyNotFound")]

\* Ui::handle_of: the handle of an identifier, or the not-found error.
handle_of(ui, id) ==
    IF id \in DOMAIN ui.handles THEN Ok(ui.handles[id]) ELSE Err("KeyNotFound")

\* id_of: the reverse lookup.
id_of(ui, handle) ==
    IF handle \in DOMAIN ui.ids THEN Some(ui.ids[handle]) ELSE None

\* low::events::window_id: the identifier of a window that belongs to the ui.
window_id_IgnoresKind(handle, ui) ==
    IF \E a \in DOMAIN ui.ids : a.h = handle
    THEN Some(ui.ids[CHOOSE a \in DOMAIN ui.ids : a.h = handle])
    ELSE None

window_id(handle, ui) == id_of(ui, AnyHWND(handle))

\* ------------------------------------------------------------ typed accessors
handle_of_window_AnyKind(ui, id, err) ==
    LET r == handle_of(ui, id)
    IN  IF r.tag = "Ok" THEN Ok(r.val.h) ELSE r

handle_of_window_HidesNotFound(ui, id, err) ==
    LET r == handle_of(ui, id)
    IN  IF r.tag = "Ok" /\ r.val.kind = "HWND" THEN Ok(r.val.h)
        ELSE ErrL("BadParent", err)

handle_of_window(ui, id, err) ==
    LET r == handle_of(ui, id)
    IN  IF r.tag = "Ok"
        THEN IF r.val.kind = "HWND" THEN Ok(r.val.h)
             ELSE ErrL("BadParent", err)
        ELSE r

handle_of_font(ui, id, err) ==
    LET r == handle_of(ui, id)
    IN  IF r.tag = "Ok"
        THEN IF r.val.kind = "HFONT" THEN Ok(r.val.h)
             ELSE ErrL("BadResource", err)
        ELSE r

\* ------------------------------------------------------- Per-Handle Data Store
\* controls::base, from its contract: the value attached to a window lives in
\* the window's user-data slot; NULL in the slot means nothing is attached.
base_set_handle_data(st, handle, data) == [st EXCEPT ![handle] = data]

base_get_handle_data(st, handle) ==
    IF st[handle] = NULL THEN None ELSE Some(st[handle])

base_free_handle_data(st, handle) ==
    [store |-> [st EXCEPT ![handle] = NULL],
     result |-> IF st[handle] = NULL THEN Err("Absent") ELSE Ok(Unit)]

\* controls::set_handle_data / get_handle_data / free_handle_data.
set_handle_data_KeepsFirst(st, handle, data) ==
    [store |-> IF st[handle] = NULL
               THEN base_set_handle_data(st, handle, data) ELSE st,
     result |-> Unit]

set_handle_data(st, handle, data) ==
    [store |-> base_set_handle_data(st, handle, data), result |-> Unit]

\* get_handle_data unwraps what base returns: a panic when nothing is attached.
get_handle_data(st, handle) ==
    LET o == base_get_handle_data(st, handle)
    IN  IF o.some THEN Ok(o.val) ELSE Panic

\* free_handle_data returns (): what base returns is dropped.
free_handle_data(st, handle) ==
    [store |-> base_free_handle_data(st, handle).store, result |-> Unit]

\* ------------------------------------------- Window Enumeration/Children Walker
\* low::menu_helper::list_menu_children, from its contract: the identifiers
\* carried by the items of the menu.
list_menu_children(items) == items

\* The callback EnumChildWindows calls for each child.  params is the pair
\* (the registry the raw pointer points to, the identifiers found so far).
list_children_window_StopsEarly(handle, params) ==
    LET o == window_id(handle, params.inner)
    IN  [ret |-> 0,
         params |-> [inner |-> params.inner,
                     ids |-> IF o.some THEN Append(params.ids, o.val)
                             ELSE params.ids]]

list_children_window_PushesAll(handle, params) ==
    [ret |-> 1,
     params |-> [inner |-> params.inner, ids |-> Append(params.ids, handle)]]

list_children_window(handle, params) ==
    LET o == window_id(handle, params.inner)
    IN  [ret |-> 1,
         params |-> [inner |-> params.inner,
                     ids |-> IF o.some THEN Append(params.ids, o.val)
                             ELSE params.ids]]

\* The first part of list_window_children: the vector the enumeration starts
\* with, given what GetMenu returned and the items of that menu.
initial_children(menu, items) ==
    IF menu # NULL THEN list_menu_children(items) ELSE <<>>

\* EnumChildWindows: the callback is called for each window of `todo` in turn,
\* until it returns 0 or the windows run out.
RECURSIVE EnumChildWindows(_, _, _)
EnumChildWindows(todo, params, visited) ==
    IF todo = <<>> THEN [params |-> params, visited |-> visited]
    ELSE LET r == list_children_window(Head(todo), params)
             seen == Append(visited, Head(todo))
         IN  IF r.ret = 0 THEN [params |-> r.params, visited |-> seen]
             ELSE EnumChildWindows(Tail(todo), r.params, seen)

\* list_window_children, given what GetMenu returned, the items of that menu
\* and the order in which the OS reports the windows under the root.  Beside
\* the vector returned: the registry as the callbacks left it, and the
\* windows the callback was called for.
list_window_children(ui, menu, items, order) ==
    LET e == EnumChildWindows(order,
                              [inner |-> ui,
                               ids |-> initial_children(menu, items)],
                              <<>>)
    IN  [result |-> e.params.ids, inner |-> e.params.inner,
         visited |-> e.visited]

\* ------------------------------------------------------ Window Procedure Dispatch
\* The window procedure, from its contract: a message for a window the registry
\* knows goes to the handler of (identifier, message); any other message gets
\* the default pass-through.
sysproc(handle, msg, ui) ==
    LET o == window_id(handle, ui)
    IN  IF o.some
        THEN [invoked |-> TRUE, id |-> o.val, msg |-> msg]
        ELSE [invoked |-> FALSE, id |-> NULL, msg |-> msg]

\* ---------------------------------------------------------------- helpers
Range(f) == {f[x] : x \in DOMAIN f}
Restrict(f, S) == [x \in S |-> f[x]]

\* The orders in which the OS may report the windows of S.
Perms(S) ==
    {p \in [1..Cardinality(S) -> S] : \A i, j \in 1..Cardinality(S) :
                                          p[i] = p[j] => i = j}

\* The item lists a menu may carry.
MenuItemSeqs == UNION {[1..n -> IDs] : n \in 0..MaxMenuItems}

\* Every handle a live resource has: the live windows and the fonts (fonts are
\* made by the font collaborator and stay alive).
LiveHandles ==
    {AnyHWND(h) : h \in DOMAIN windows} \cup {AnyHFONT(f) : f \in HFONTs}

\* RegisterClassExW was not called.
NotCalled(table) == [class_token |-> 0, lastError |-> "none", table |-> table]

\* -------------------------------------------------------------------- Init
Init ==
    /\ classTable = {}
    /\ windows = <<>>
    /\ inner = EmptyInner
    /\ store = <<>>
    /\ ret = [op |-> "none"]
    /\ expect = <<>>
    /\ lastSet = <<>>

\* ----------------------------------------------------------------- actions
BuildSysclass ==
    /\ \E name \in ClassNames, hmod \in {NULL, 1} :
       \E outcome \in (IF hmod = NULL THEN {"not called"}
                       ELSE RegisterOutcomes(classTable, name)) :
          LET reg == IF hmod = NULL THEN NotCalled(classTable)
                     ELSE RegisterClassExW(classTable, name, outcome)
          IN  /\ classTable' = reg.table
              /\ ret' = [op |-> "build_sysclass", name |-> name, hmod |-> hmod,
                         existed |-> name \in classTable,
                         again |-> (/\ ret.op = "build_sysclass"
                                    /\ ret.name = name
                                    /\ ret.result.tag = "Ok"),
                         class_token |-> reg.class_token,
                         lastError |-> reg.lastError,
                         result |-> build_sysclass(hmod, reg)]
    /\ UNCHANGED <<windows, inner, store, expect, lastSet>>

BuildWindow ==
    /\ \E parent \in {NULL} \cup HWNDs, hmod \in {NULL, 1} :
       \E handle \in (IF hmod = NULL THEN {NULL}
                      ELSE CreateOutcomes(windows, parent)) :
          /\ windows' = IF handle # NULL THEN Put(windows, handle, parent)
                        ELSE windows
          /\ store' = IF handle # NULL THEN Put(store, handle, NULL) ELSE store
          /\ lastSet' = IF handle # NULL THEN Put(lastSet, handle, NULL)
                        ELSE lastSet
          /\ ret' = [op |-> "build_window", hmod |-> hmod, handle |-> handle,
                     parentValid |-> (parent = NULL
                                        \/ parent \in DOMAIN windows),
                     result |-> build_window(hmod, handle)]
    /\ UNCHANGED <<classTable, inner, expect>>

\* The caller releases a window it does not have registered (any more); the OS
\* destroys the windows under it too, and their user-data slots with them.
DestroyWindow ==
    /\ \E h \in DOMAIN windows :
          LET gone == {h} \cup Descendants(windows, {h})
              left == DOMAIN windows \ gone
          IN  /\ \A g \in gone : AnyHWND(g) \notin Range(expect)
              /\ windows' = Restrict(windows, left)
              /\ store' = Restrict(store, left)
              /\ lastSet' = Restrict(lastSet, left)
              /\ ret' = [op |-> "DestroyWindow"]
    /\ UNCHANGED <<classTable, inner, expect>>

\* A control is registered: its handle is one of a live resource that is not
\* registered (just created, or handed back by remove).
Insert ==
    /\ \E id \in IDs, handle \in LiveHandles \ Range(expect) :
          LET r == insert(inner, id, handle)
          IN  /\ inner' = r.inner
              /\ expect' = IF r.result.tag = "Ok" THEN Put(expect, id, handle)
                           ELSE expect
              /\ ret' = [op |-> "insert", id |-> id, handle |-> handle,
                         before |-> inner, result |-> r.result]
    /\ UNCHANGED <<classTable, windows, store, lastSet>>

Remove ==
    /\ \E id \in IDs :
          LET r == remove(inner, id)
          IN  /\ inner' = r.inner
              /\ expect' = IF r.result.tag = "Ok" THEN Drop(expect, id)
                           ELSE expect
              /\ ret' = [op |-> "remove", id |-> id,
                         was |-> IF id \in DOMAIN expect THEN Some(expect[id])
                                 ELSE None,
                         result |-> r.result]
    /\ UNCHANGED <<classTable, windows, store, lastSet>>

HandleOf ==
    /\ \E id \in IDs :
          ret' = [op |-> "handle_of", id |-> id, result |-> handle_of(inner, id)]
    /\ UNCHANGED <<classTable, windows, inner, store, expect, lastSet>>

HandleOfWindow ==
    /\ \E id \in IDs, err \in Labels :
          ret' = [op |-> "handle_of_window", id |-> id, label |-> err,
                  before |-> inner,
                  result |-> handle_of_window(inner, id, err)]
    /\ UNCHANGED <<classTable, windows, inner, store, expect, lastSet>>

HandleOfFont ==
    /\ \E id \in IDs, err \in Labels :
          ret' = [op |-> "handle_of_font", id |-> id, label |-> err,
                  before |-> inner,
                  result |-> handle_of_font(inner, id, err)]
    /\ UNCHANGED <<classTable, windows, inner, store, expect, lastSet>>

SetHandleData ==
    /\ \E handle \in DOMAIN windows, data \in DataValues :
          LET r == set_handle_data(store, handle, data)
          IN  /\ store' = r.store
              /\ lastSet' = [lastSet EXCEPT ![handle] = data]
              /\ ret' = [op |-> "set_handle_data", handle |-> handle,
                         data |-> data, previous |-> lastSet[handle],
                         result |-> r.result]
    /\ UNCHANGED <<classTable, windows, inner, expect>>

GetHandleData ==
    /\ \E handle \in DOMAIN windows :
          ret' = [op |-> "get_handle_data", handle |-> handle,
                  attached |-> lastSet[handle],
                  overwritten |-> (/\ ret.op = "set_handle_data"
                                   /\ ret.handle = handle
                                   /\ ret.previous \notin {NULL, ret.data}),
                  result |-> get_handle_data(store, handle)]
    /\ UNCHANGED <<classTable, windows, inner, store, expect, lastSet>>

FreeHandleData ==
    /\ \E handle \in DOMAIN windows :
          LET r == free_handle_data(store, handle)
          IN  /\ store' = r.store
              /\ lastSet' = [lastSet EXCEPT ![handle] = NULL]
              /\ ret' = [op |-> "free_handle_data", handle |-> handle,
                         attached |-> lastSet[handle], result |-> r.result]
    /\ UNCHANGED <<classTable, windows, inner, expect>>

\* list_window_children on a live window: GetMenu, the menu's items, then the
\* enumeration, in an order the OS chooses.
ListWindowChildren ==
    /\ \E handle \in DOMAIN windows, menu \in {NULL, 1} :
       \E items \in (IF menu = NULL THEN {<<>>} ELSE MenuItemSeqs),
          order \in Perms(Descendants(windows, {handle})) :
          LET r == list_window_children(inner, menu, items, order)
          IN  /\ inner' = r.inner
              /\ ret' = [op |-> "list_window_children", root |-> handle,
                         menu |-> menu, items |-> items, order |-> order,
                         visited |-> r.visited, before |-> inner,
                         result |-> r.result]
    /\ UNCHANGED <<classTable, windows, store, expect, lastSet>>

\* The OS delivers a message to a live window.
WndProc ==
    /\ \E handle \in DOMAIN windows, msg \in Msgs :
          ret' = [op |-> "sysproc", handle |-> handle, msg |-> msg,
                  result |-> sysproc(handle, msg, inner)]
    /\ UNCHANGED <<classTable, windows, inner, store, expect, lastSet>>

Next ==
    \/ BuildSysclass
    \/ BuildWindow
    \/ DestroyWindow
    \/ Insert
    \/ Remove
    \/ HandleOf
    \/ HandleOfWindow
    \/ HandleOfFont
    \/ SetHandleData
    \/ GetHandleData
    \/ FreeHandleData
    \/ ListWindowChildren
    \/ WndProc

Spec == Init /\ [][Next]_vars

\* The components write disjoint parts of the state and no operation reads
\* what another component wrote (ret apart, which every operation overwrites),
\* so each operation is also checked in the environment that matters to it:
\* the calls that create, register, deregister and destroy the windows it
\* works on.
Lifecycle ==
    \/ BuildWindow
    \/ DestroyWindow
    \/ Insert
    \/ Remove

SpecLifecycle == Init /\ [][Lifecycle]_vars

NextBuilder ==
    \/ BuildSysclass
    \/ BuildWindow
    \/ DestroyWindow

SpecBuilder == Init /\ [][NextBuilder]_vars

NextRegistry ==
    \/ Lifecycle
    \/ HandleOf
    \/ HandleOfWindow

SpecRegistry == Init /\ [][NextRegistry]_vars

NextAccessors ==
    \/ Lifecycle
    \/ HandleOfWindow
    \/ HandleOfFont

SpecAccessors == Init /\ [][NextAccessors]_vars

NextDispatch ==
    \/ Lifecycle
    \/ WndProc

SpecDispatch == Init /\ [][NextDispatch]_vars

NextData ==
    \/ BuildWindow
    \/ DestroyWindow
    \/ SetHandleData
    \/ GetHandleData
    \/ FreeHandleData

SpecData == Init /\ [][NextData]_vars

NextWalker ==
    \/ Lifecycle
    \/ ListWindowChildren

SpecWalker == Init /\ [][NextWalker]_vars

\* ------------------------------------------------------------------ claims
\* What the registry is expected to hold for the windows under `root`.
Recognized(root) ==
    {i \in DOMAIN expect : /\ expect[i].kind = "HWND"
                           /\ expect[i].h \in Descendants(windows, {root})}

C2_BuildWindowResult ==
    /\ [](ret.op = "build_window" =>
            /\ ret.result =
                  (IF ret.hmod # NULL /\ ret.handle # NULL
                   THEN Ok(ret.handle) ELSE Err("WindowCreationFail"))
            /\ (ret.result.tag = "Ok" =>
                   /\ ret.result.val # NULL
                   /\ ret.result.val \in DOMAIN windows)
            /\ (~ret.parentValid => ret.result = Err("WindowCreationFail")))
    /\ [][ret'.op = "build_window" /\ ret'.result.tag = "Err" =>
             /\ inner' = inner
             /\ expect' = expect
             /\ windows' = windows]_vars

\* C2 witness: a build_window with a parent that is no live window has failed
\* while the registry holds an entry.
C2_Witness ==
    /\ ret.op = "build_window"
    /\ ret.hmod # NULL
    /\ ~ret.parentValid
    /\ ret.result = Err("WindowCreationFail")
    /\ inner.handles # <<>>

\* C3: handle_of_window returns the stored handle for an identifier registered
\* as a window, Err(BadParent(label)) with the caller's label for one
\* registered as anything else, and the registry's not-found error for an
\* unregistered one; handle_of_font likewise with fonts and BadResource.  A
\* handle returned is one of the right kind, and the registry is unchanged.
C3_TypedAccessors ==
    /\ ret.op = "handle_of_window" =>
          /\ ret.result =
                (IF ret.id \notin DOMAIN expect THEN handle_of(inner, ret.id)
                 ELSE IF expect[ret.id].kind = "HWND"
                 THEN Ok(expect[ret.id].h)
                 ELSE ErrL("BadParent", ret.label))
          /\ (ret.id \notin DOMAIN expect => ret.result = Err("KeyNotFound"))
          /\ (ret.result.tag = "Ok" =>
                 AnyHWND(ret.result.val) \in Range(expect))
          /\ inner = ret.before
    /\ ret.op = "handle_of_font" =>
          /\ ret.result =
                (IF ret.id \notin DOMAIN expect THEN handle_of(inner, ret.id)
                 ELSE IF expect[ret.id].kind = "HFONT"
                 THEN Ok(expect[ret.id].h)
                 ELSE ErrL("BadResource", ret.label))
          /\ (ret.id \notin DOMAIN expect => ret.result = Err("KeyNotFound"))
          /\ (ret.result.tag = "Ok" =>
                 AnyHFONT(ret.result.val) \in Range(expect))
          /\ inner = ret.before

\* C3 witness: handle_of_window on an identifier registered as a font has
\* returned BadParent.
C3_Witness ==
    /\ ret.op = "handle_of_window"
    /\ ret.id \in DOMAIN expect
    /\ expect[ret.id].kind = "HFONT"
    /\ ret.result = ErrL("BadParent", ret.label)

C8_InsertLookupRemove ==
    /\ DOMAIN inner.handles = DOMAIN expect
    /\ \A i \in DOMAIN expect : handle_of(inner, i) = Ok(expect[i])
    /\ ret.op = "handle_of" =>
          ret.result = (IF ret.id \in DOMAIN expect THEN Ok(expect[ret.id])
                        ELSE Err("KeyNotFound"))
    /\ ret.op = "handle_of_window" =>
          /\ (ret.id \notin DOMAIN expect => ret.result = Err("KeyNotFound"))
          /\ (ret.id \in DOMAIN expect /\ expect[ret.id].kind = "HWND" =>
                 ret.result = Ok(expect[ret.id].h))
    /\ ret.op = "remove" =>
          /\ ret.id \notin DOMAIN expect
          /\ handle_of(inner, ret.id) = Err("KeyNotFound")
          /\ IF ret.was.some
             THEN /\ ret.result = Ok(ret.was.val)
                  /\ (ret.was.val.kind = "HWND" =>
                         ret.was.val.h \in DOMAIN windows)
             ELSE ret.result = Err("KeyNotFound")

\* C8 witness: remove has handed back the window handle that was inserted,
\* and the window is still alive.
C8_Witness ==
    /\ ret.op = "remove"
    /\ ret.was.some
    /\ ret.was.val.kind = "HWND"
    /\ ret.result = Ok(ret.was.val)
    /\ ret.was.val.h \in DOMAIN windows

\* C10: a message delivered to a live window H invokes the handler of
\* (identifier, message) exactly when the registry's reverse lookup finds an
\* identifier for H, and that identifier is the one H was registered under;
\* for a window that is not registered (not yet, or not any more) no handler
\* is invoked and the message is passed through.
C10_Dispatch ==
    ret.op = "sysproc" =>
        LET H == AnyHWND(ret.handle)
        IN  /\ ret.result.invoked = id_of(inner, H).some
            /\ ret.result.invoked = (H \in Range(expect))
            /\ ret.result.msg = ret.msg
            /\ (ret.result.invoked =>
                   /\ ret.result.id \in DOMAIN expect
                   /\ expect[ret.result.id] = H)

\* C10 witness: a message for a live window that is not registered, while
\* another window is, has been passed through.
C10_Witness ==
    /\ ret.op = "sysproc"
    /\ ~ret.result.invoked
    /\ \E i \in DOMAIN expect : expect[i].kind = "HWND"

\* C5: get_handle_data returns the value of the last set_handle_data on the
\* same handle (a later set overwrites an earlier one), and the slot of each
\* handle holds the value last attached to that handle and no other.
C5_SetThenGet ==
    /\ \A h \in DOMAIN windows : store[h] = lastSet[h]
    /\ ret.op = "get_handle_data" /\ ret.attached # NULL =>
          ret.result = Ok(ret.attached)
    /\ ret.op = "get_handle_data" /\ ret.overwritten =>
          ret.result = Ok(lastSet[ret.handle])

\* C5 witness: a get right after a set that replaced a different value has
\* returned the new value, while another window holds a different one.
C5_Witness ==
    /\ ret.op = "get_handle_data"
    /\ ret.overwritten
    /\ ret.result = Ok(ret.attached)
    /\ \E g \in DOMAIN windows : lastSet[g] \notin {NULL, ret.attached}

\* C6: a get_handle_data or free_handle_data on a handle with nothing attached
\* (never set, or freed since) reports the absence to its caller as a failure.
C6_AbsenceReported ==
    ret.op \in {"get_handle_data", "free_handle_data"} /\ ret.attached = NULL
        => ret.result \in {Panic, Err("Absent")}

\* C4 as stated: the result is, as a set, exactly the recognized windows under
\* the root, and every identifier in it is registered.
C4_OnlyRecognizedDescendants ==
    ret.op = "list_window_children" =>
        /\ Range(ret.result) = Recognized(ret.root)
        /\ Range(ret.result) \subseteq DOMAIN inner.handles

\* C4 amended: the result is, as a set, the identifiers of the items of the
\* root's menu (taken as they are) together with the recognized windows under
\* the root; without a menu it is exactly the recognized windows, empty when
\* there are none; every identifier a window contributed is registered.
C4_MenuItemsAndRecognized ==
    ret.op = "list_window_children" =>
        LET menuSeq == IF ret.menu # NULL THEN ret.items ELSE <<>>
            menuIds == Range(menuSeq)
        IN  /\ Range(ret.result) = menuIds \cup Recognized(ret.root)
            /\ (ret.menu = NULL => Range(ret.result) = Recognized(ret.root))
            /\ Range(ret.result) \ menuIds \subseteq DOMAIN inner.handles
            /\ Len(ret.result) =
                  Len(menuSeq) + Cardinality(Recognized(ret.root))

\* C4 witness: a root without a menu, with a registered child and a foreign
\* one, has yielded exactly the registered child.
C4_Witness ==
    /\ ret.op = "list_window_children"
    /\ ret.menu = NULL
    /\ Recognized(ret.root) # {}
    /\ Cardinality(Recognized(ret.root)) < Len(ret.order)
    /\ Range(ret.result) = Recognized(ret.root)

\* C9: list_window_children leaves the registry as it found it: no call of
\* the callback, on any window and with any registry the program can reach,
\* changes the registry, and the registry after the call is the one before;
\* the callback always returns 1, so it is called once for each window the
\* OS reports, in the order the OS reports them.
C9_EnumerationFrame ==
    /\ \A h \in DOMAIN windows :
          LET r == list_children_window(h, [inner |-> inner, ids |-> <<>>])
          IN  /\ r.params.inner = inner
              /\ r.ret = 1
    /\ ret.op = "list_window_children" =>
          /\ inner = ret.before
          /\ ret.visited = ret.order
          /\ Range(ret.visited) = Descendants(windows, {ret.root})
          /\ Len(ret.visited) = Cardinality(Descendants(windows, {ret.root}))

\* C9 witness: an enumeration over two children, one of them registered, has
\* finished.
C9_Witness ==
    /\ ret.op = "list_window_children"
    /\ Len(ret.visited) >= 2
    /\ Recognized(ret.root) # {}
    /\ inner = ret.before

=============================================================================
